---------------------------- MODULE Spec2Model ----------------------------
(***************************************************************************)
(* Model of the Home Assistant "miner" integration:                        *)
(*   - the sensor platform (custom_components/miner/sensor.py): the setup  *)
(*     of the initial entities, the on-refresh callback that creates       *)
(*     entities for newly reported sensors, and the two entity classes;    *)
(*   - the configuration wizard (custom_components/miner/config_flow.py).  *)
(* Python dicts are functions whose DOMAIN is the set of keys; f-strings   *)
(* are string concatenations; None and raised exceptions are tagged        *)
(* records.                                                                *)
(***************************************************************************)
EXTENDS Integers, Sequences, FiniteSets, TLC

VARIABLES
    pc,                   \* position of async_setup_entry / the platform
    data,                 \* coordinator.data, the most recent refresh result
    expected_hashboards,  \* coordinator.miner.expected_hashboards
    sensor_created,       \* the set of strings of async_setup_entry
    added,                \* every entity ever passed to async_add_entities
    last_call,            \* the async_add_entities calls of the last handler run
    state_written,        \* the native_value the host last read of each entity
    setup_log,            \* the host calls of async_setup_entry, in order
    known_keys,           \* data model of the specification: set<string>
    known_board_sensors,  \* data model of the specification: int -> set<string>
    spec_batch,           \* the entities the specification's model adds
    cur_step,             \* the step of the wizard whose form is on screen
    _data,                \* MinerConfigFlow._data
    _miner,               \* MinerConfigFlow._miner
    result,               \* what the last step call of the wizard returned
    history,              \* the submissions the steps of the wizard took
    calls                 \* the number of step calls the host made

sensorVars == <<pc, data, expected_hashboards, sensor_created, added,
                last_call, state_written, setup_log, known_keys, known_board_sensors,
                spec_batch>>

flowVars == <<cur_step, _data, _miner, result, history, calls>>

vars == <<sensorVars, flowVars>>

-----------------------------------------------------------------------------
(* Bounds and input domains *)

\* board indices the coordinator may report are 0 .. MaxBoards - 1, and
\* expected_hashboards ranges over 0 .. MaxBoards
MaxBoards == 1

Boards == 0 .. (MaxBoards - 1)

\* telemetry readings
Values == {40, 75}

\* miner-level keys the coordinator may report: an ordinary key and two keys
\* shaped like the strings used for board sensors
MinerKeys == {"hashrate", "0-chip_temperature", "board_0-chip_temperature"}

\* board sensor names the coordinator may report
BoardSensorNames == {"chip_temperature"}

\* the sensor names of the initial batch of a board
SETUP_BOARD_SENSORS == {"board_temperature", "chip_temperature", "board_hashrate"}

\* a Python dict with keys among K and values in V
Dicts(K, V) == UNION {[D -> V] : D \in SUBSET K}

\* the mac address of the miner
Mac == "aa:bb"

\* coordinator.data as the platform reads it: the sensors K and the board
\* sensors B the miner reports, all at the reading r of that poll
MinerData(K, B, r) ==
    [mac |-> Mac,
     miner_sensors |-> [key \in K |-> r],
     board_sensors |-> [b \in DOMAIN B |-> [s \in B[b] |-> r]]]

DataSet ==
    {MinerData(K, B, r) :
        K \in SUBSET MinerKeys,
        B \in Dicts(Boards, SUBSET BoardSensorNames),
        r \in Values}

NoData == [mac |-> Mac, miner_sensors |-> <<>>, board_sensors |-> <<>>]

-----------------------------------------------------------------------------
(* Entities *)

\* MinerSensor.__init__
MinerSensor(d, key) ==
    [kind |-> "miner", key |-> key, board_num |-> -1, sensor |-> "",
     unique_id |-> d.mac \o "-" \o key]

\* MinerBoardSensor.__init__
MinerBoardSensor(d, board_num, sensor) ==
    [kind |-> "board", key |-> "", board_num |-> board_num, sensor |-> sensor,
     unique_id |-> d.mac \o "-" \o ToString(board_num) \o "-" \o sensor]

\* the string _create_miner_entity records for a key
MinerCreatedKey(key) == key

\* the string _create_board_entity records for a board sensor
BoardCreatedKey(board_num, sensor) ==
    "board_" \o ToString(board_num) \o "-" \o sensor

\* the string new_data_received looks up for a board sensor
BoardLookupKey(new_board, sensor) == ToString(new_board) \o "-" \o sensor

\* results of a property read
ValueResult(v) == [outcome |-> "value", value |-> v]
NoneResult == [outcome |-> "None", value |-> 0]
KeyErrorResult == [outcome |-> "KeyError", value |-> 0]

\* MinerSensor._sensor_data
MinerSensor_sensor_data(e, d) ==
    IF e.key \in DOMAIN d.miner_sensors
    THEN ValueResult(d.miner_sensors[e.key])
    ELSE KeyErrorResult

\* MinerBoardSensor._sensor_data without the test of the sensor name
MinerBoardSensor_sensor_data_NoSensorTest(e, d) ==
    IF e.board_num \in DOMAIN d.board_sensors
    THEN IF e.sensor \in DOMAIN d.board_sensors[e.board_num]
         THEN ValueResult(d.board_sensors[e.board_num][e.sensor])
         ELSE KeyErrorResult
    ELSE NoneResult

\* MinerBoardSensor._sensor_data
MinerBoardSensor_sensor_data(e, d) ==
    IF /\ e.board_num \in DOMAIN d.board_sensors
       /\ e.sensor \in DOMAIN d.board_sensors[e.board_num]
    THEN ValueResult(d.board_sensors[e.board_num][e.sensor])
    ELSE NoneResult

\* native_value of either entity class
native_value(e, d) ==
    IF e.kind = "miner"
    THEN MinerSensor_sensor_data(e, d)
    ELSE MinerBoardSensor_sensor_data(e, d)

-----------------------------------------------------------------------------
(* async_setup_entry *)

\* the initial batch with range(expected_hashboards - 1)
SetupBoardPairs_OneShort(n) ==
    {<<b, s>> : b \in 0 .. (n - 2), s \in SETUP_BOARD_SENSORS}

\* the pairs of the initial batch
SetupBoardPairs(n) == {<<b, s>> : b \in 0 .. (n - 1), s \in SETUP_BOARD_SENSORS}

\* the entities of the initial batch
SetupSensors(d, n) ==
    {MinerSensor(d, key) : key \in DOMAIN d.miner_sensors}
    \cup {MinerBoardSensor(d, p[1], p[2]) : p \in SetupBoardPairs(n)}

\* sensor_created after the initial batch
SetupCreated(d, n) ==
    {MinerCreatedKey(key) : key \in DOMAIN d.miner_sensors}
    \cup {BoardCreatedKey(p[1], p[2]) : p \in SetupBoardPairs(n)}

\* the async_add_entities calls made for a batch: none for an empty batch
AddEntitiesCalls(batch) == IF batch # {} THEN <<batch>> ELSE <<>>

\* async_setup_entry registering the listener before it adds the batch
SetupCalls_ListenerFirst(batch) ==
    <<"add_listener">> \o (IF batch # {} THEN <<"async_add_entities">> ELSE <<>>)

\* the host calls of async_setup_entry after the first refresh, in order
SetupCalls(batch) ==
    (IF batch # {} THEN <<"async_add_entities">> ELSE <<>>) \o <<"add_listener">>

\* new_data_received without the test `key not in sensor_created`
NewMinerKeys_NoTest(d, created) == DOMAIN d.miner_sensors

\* the miner keys new_data_received creates entities for
NewMinerKeys(d, created) ==
    {key \in DOMAIN d.miner_sensors : key \notin created}

\* the board pairs new_data_received creates entities for
NewBoardPairs(d, created) ==
    IF DOMAIN d.board_sensors # {}
    THEN {p \in UNION {{<<b, s>> : s \in DOMAIN d.board_sensors[b]} :
                          b \in DOMAIN d.board_sensors} :
             BoardLookupKey(p[1], p[2]) \notin created}
    ELSE {}

\* new_sensors of new_data_received
NewSensors(d, created) ==
    {MinerSensor(d, key) : key \in NewMinerKeys(d, created)}
    \cup {MinerBoardSensor(d, p[1], p[2]) :
             p \in NewBoardPairs(d, created \cup NewMinerKeys(d, created))}

\* new_data_received starting from a fresh set at every refresh
RefreshCreated_FreshSet(d, created) ==
    {MinerCreatedKey(key) : key \in NewMinerKeys(d, {})}
    \cup {BoardCreatedKey(p[1], p[2]) : p \in NewBoardPairs(d, NewMinerKeys(d, {}))}

\* sensor_created after new_data_received
RefreshCreated(d, created) ==
    created
    \cup {MinerCreatedKey(key) : key \in NewMinerKeys(d, created)}
    \cup {BoardCreatedKey(p[1], p[2]) :
             p \in NewBoardPairs(d, created \cup NewMinerKeys(d, created))}


-----------------------------------------------------------------------------
(* The data model of the specification, run beside the code *)

\* the specification's tracking state after the initial batch
SpecSetupKnownBoards(n) == [b \in 0 .. (n - 1) |-> SETUP_BOARD_SENSORS]

\* whether the specification's model has materialized a board pair
SpecKnownPair(kb, b, s) == b \in DOMAIN kb /\ s \in kb[b]

\* the board pairs the data reports
ReportedPairs(d) ==
    UNION {{<<b, s>> : s \in DOMAIN d.board_sensors[b]} : b \in DOMAIN d.board_sensors}

\* the delta of the specification's refresh: keys and pairs not yet known
SpecNewKeys(d, kk) == DOMAIN d.miner_sensors \ kk
SpecNewPairs(d, kb) == {p \in ReportedPairs(d) : ~SpecKnownPair(kb, p[1], p[2])}

\* the entities the specification's refresh adds
SpecNewSensors(d, kk, kb) ==
    {MinerSensor(d, key) : key \in SpecNewKeys(d, kk)}
    \cup {MinerBoardSensor(d, p[1], p[2]) : p \in SpecNewPairs(d, kb)}

\* known_board_sensors after the specification's refresh
SpecRefreshKnownBoards(d, kb) ==
    [b \in DOMAIN kb \cup DOMAIN d.board_sensors |->
        (IF b \in DOMAIN kb THEN kb[b] ELSE {})
        \cup (IF b \in DOMAIN d.board_sensors THEN DOMAIN d.board_sensors[b] ELSE {})]

-----------------------------------------------------------------------------
(* The sensor platform *)

\* the string recorded in sensor_created for an entity
CreatedKeyOf(e) ==
    IF e.kind = "miner"
    THEN MinerCreatedKey(e.key)
    ELSE BoardCreatedKey(e.board_num, e.sensor)

\* an update handler that forgets the entities whose sensor is no longer reported
HandleCoordinatorUpdateCreated_Forget(created, entities, d) ==
    created \ {CreatedKeyOf(e) : e \in {x \in entities : native_value(x, d).outcome # "value"}}

\* _handle_coordinator_update of both entity classes, as far as the set of
\* created keys goes: the handlers only call the base class
HandleCoordinatorUpdateCreated(created, entities, d) == created

\* the host writes the state of every entity when it is added and at every
\* coordinator update (_handle_coordinator_update): it reads native_value
WrittenStates(entities, d) == [e \in entities |-> native_value(e, d)]

-----------------------------------------------------------------------------
(* The configuration wizard: input domains *)

\* the number of step calls the host makes on one flow
MaxCalls == 5

CONF_IP == "ip"
CONF_RPC_PASSWORD == "rpc_password"
CONF_SSH_PASSWORD == "ssh_password"
CONF_SSH_USERNAME == "ssh_username"
CONF_TITLE == "title"
CONF_WEB_PASSWORD == "web_password"
CONF_WEB_USERNAME == "web_username"

\* self._miner = None
NoMiner == [found |-> FALSE, rpc |-> "absent", web |-> FALSE, ssh |-> FALSE]

\* the miners pyasic.get_miner may return: the rpc interface is absent,
\* present without a password or present with one; the web and ssh
\* interfaces are absent or present
Miners == [found : {TRUE}, rpc : {"absent", "no_pwd", "pwd"}, web : BOOLEAN, ssh : BOOLEAN]

IPs == {"10.0.0.1", "10.0.0.2"}
Credentials == {"root", "admin"}
Titles == {"rig"}

\* the empty dict, also standing for user_input = None, which every step
\* replaces by {}
EmptyInput == <<>>

\* dict.update
Update(d, u) ==
    [k \in DOMAIN d \cup DOMAIN u |-> IF k \in DOMAIN u THEN u[k] ELSE d[k]]

\* results of a step
ShowForm(step_id, fields, errors) ==
    [type |-> "form", step_id |-> step_id, fields |-> fields, errors |-> errors,
     title |-> "", data |-> EmptyInput]
CreateEntry(title, d) ==
    [type |-> "create_entry", step_id |-> "", fields |-> {}, errors |-> FALSE,
     title |-> title, data |-> d]
Raised ==
    [type |-> "AttributeError", step_id |-> "", fields |-> {}, errors |-> FALSE,
     title |-> "", data |-> EmptyInput]
NoResult ==
    [type |-> "none", step_id |-> "", fields |-> {}, errors |-> FALSE,
     title |-> "", data |-> EmptyInput]

\* what a step call leaves behind: the fields of the flow, the result, and
\* the submissions the steps took on the way
Outcome(d, m, r, taken) == [_data |-> d, _miner |-> m, result |-> r, taken |-> taken]

\* a submission a step took
Taken(step_id, user_input) == [step_id |-> step_id, user_input |-> user_input]

-----------------------------------------------------------------------------
(* The configuration wizard: the steps *)

\* the schema async_step_login builds: its fields, or the error raised while
\* the default of the rpc password is computed from self._miner.web.pwd
\* (self._miner.api is the rpc interface under its former name)
LoginSchema(m) ==
    LET rpc_field == m.rpc = "pwd"
        rpc_default_raises == rpc_field /\ ~m.web
    IN  [raises |-> ~m.found \/ rpc_default_raises,
         fields |-> (IF rpc_field THEN {CONF_RPC_PASSWORD} ELSE {})
                    \cup (IF m.web THEN {CONF_WEB_USERNAME, CONF_WEB_PASSWORD} ELSE {})
                    \cup (IF m.ssh THEN {CONF_SSH_USERNAME, CONF_SSH_PASSWORD} ELSE {})]

\* async_step_title creating the entry from the submission alone
async_step_title_SubmissionOnly(d, m, user_input) ==
    IF ~m.found
    THEN Outcome(d, m, Raised, <<>>)
    ELSE IF DOMAIN user_input = {}
    THEN Outcome(d, m, ShowForm("title", {CONF_TITLE}, FALSE), <<>>)
    ELSE Outcome(Update(d, user_input), m,
                 CreateEntry(user_input[CONF_TITLE], user_input),
                 <<Taken("title", user_input)>>)

\* async_step_title
async_step_title(d, m, user_input) ==
    IF ~m.found
    THEN Outcome(d, m, Raised, <<>>)
    ELSE IF DOMAIN user_input = {}
    THEN Outcome(d, m, ShowForm("title", {CONF_TITLE}, FALSE), <<>>)
    ELSE Outcome(Update(d, user_input), m,
                 CreateEntry(Update(d, user_input)[CONF_TITLE], Update(d, user_input)),
                 <<Taken("title", user_input)>>)

\* async_step_login without the test `if not user_input`
async_step_login_NoEmptyTest(d, m, user_input) ==
    IF LoginSchema(m).raises
    THEN Outcome(d, m, Raised, <<>>)
    ELSE LET next == async_step_title(Update(d, user_input), m, EmptyInput)
         IN  Outcome(next._data, next._miner, next.result,
                     <<Taken("login", user_input)>> \o next.taken)

\* async_step_login
async_step_login(d, m, user_input) ==
    IF LoginSchema(m).raises
    THEN Outcome(d, m, Raised, <<>>)
    ELSE IF DOMAIN user_input = {}
    THEN Outcome(d, m, ShowForm("login", LoginSchema(m).fields, FALSE), <<>>)
    ELSE LET next == async_step_title(Update(d, user_input), m, EmptyInput)
         IN  Outcome(next._data, next._miner, next.result,
                     <<Taken("login", user_input)>> \o next.taken)

\* validate_ip_input: the errors for what pyasic.get_miner returned
validate_ip_input(miner) == ~miner.found

\* async_step_user recording the submission before the lookup is validated
async_step_user_RecordsFirst(d, m, user_input, miner) ==
    IF DOMAIN user_input = {}
    THEN Outcome(d, m, ShowForm("user", {CONF_IP}, FALSE), <<>>)
    ELSE IF validate_ip_input(miner)
    THEN Outcome(Update(d, user_input), m, ShowForm("user", {CONF_IP}, TRUE), <<>>)
    ELSE LET next == async_step_login(Update(d, user_input), miner, EmptyInput)
         IN  Outcome(next._data, next._miner, next.result,
                     <<Taken("user", user_input)>> \o next.taken)

\* async_step_user, where pyasic.get_miner returns miner
async_step_user(d, m, user_input, miner) ==
    IF DOMAIN user_input = {}
    THEN Outcome(d, m, ShowForm("user", {CONF_IP}, FALSE), <<>>)
    ELSE IF validate_ip_input(miner)
    THEN Outcome(d, m, ShowForm("user", {CONF_IP}, TRUE), <<>>)
    ELSE LET next == async_step_login(Update(d, user_input), miner, EmptyInput)
         IN  Outcome(next._data, next._miner, next.result,
                     <<Taken("user", user_input)>> \o next.taken)

\* the inputs the host passes to a step: nothing, or a value for every field
\* of the form on screen
StepInputs(fields, values) == {EmptyInput} \cup [fields -> values]

\* the step the host calls next: the step of the form on screen, none once
\* the entry is created, the same step again after an exception
NextStep(step, r) ==
    IF r.type = "form" THEN r.step_id
    ELSE IF r.type = "create_entry" THEN "done"
    ELSE step

FlowInit ==
    /\ cur_step = "init"
    /\ _data = EmptyInput
    /\ _miner = NoMiner
    /\ result = NoResult
    /\ history = <<>>
    /\ calls = 0

\* the host applies the outcome of a step call
Apply(o) ==
    /\ calls < MaxCalls
    /\ calls' = calls + 1
    /\ _data' = o._data
    /\ _miner' = o._miner
    /\ result' = o.result
    /\ history' = history \o o.taken
    /\ cur_step' = NextStep(cur_step, o.result)
    /\ UNCHANGED sensorVars

\* the flow is started: the host calls async_step_user without input
StartFlow ==
    /\ cur_step = "init"
    /\ Apply(async_step_user(_data, _miner, EmptyInput, NoMiner))

\* the user form is submitted
SubmitUser(user_input, miner) ==
    /\ cur_step = "user"
    /\ Apply(async_step_user(_data, _miner, user_input, miner))

\* the login form is submitted
SubmitLogin(user_input) ==
    /\ cur_step = "login"
    /\ Apply(async_step_login(_data, _miner, user_input))

\* the title form is submitted
SubmitTitle(user_input) ==
    /\ cur_step = "title"
    /\ Apply(async_step_title(_data, _miner, user_input))

FlowNext ==
    \/ StartFlow
    \/ \E user_input \in StepInputs({CONF_IP}, IPs), miner \in Miners \cup {NoMiner} :
          SubmitUser(user_input, miner)
    \/ \E user_input \in StepInputs(result.fields, Credentials) : SubmitLogin(user_input)
    \/ \E user_input \in StepInputs({CONF_TITLE}, Titles) : SubmitTitle(user_input)


SensorInit ==
    /\ pc = "start"
    /\ data = NoData
    /\ expected_hashboards \in 0 .. MaxBoards
    /\ sensor_created = {}
    /\ added = {}
    /\ last_call = <<>>
    /\ state_written = <<>>
    /\ setup_log = <<>>
    /\ known_keys = {}
    /\ known_board_sensors = <<>>
    /\ spec_batch = {}

\* await coordinator.async_config_entry_first_refresh(), the refresh succeeds
FirstRefresh(d) ==
    /\ pc = "start"
    /\ pc' = "first_refreshed"
    /\ data' = d
    /\ setup_log' = setup_log \o <<"first_refresh">>
    /\ UNCHANGED <<expected_hashboards, sensor_created, added, last_call,
                   state_written, known_keys, known_board_sensors, spec_batch,
                   flowVars>>

\* await coordinator.async_config_entry_first_refresh(), the refresh fails and
\* the setup is abandoned
FirstRefreshFails ==
    /\ pc = "start"
    /\ pc' = "not_ready"
    /\ setup_log' = setup_log \o <<"first_refresh_failed">>
    /\ UNCHANGED <<data, expected_hashboards, sensor_created, added, last_call,
                   state_written, known_keys, known_board_sensors, spec_batch,
                   flowVars>>

\* async_setup_entry after the first refresh: the initial batch, then the
\* registration of new_data_received
SetupEntities ==
    /\ pc = "first_refreshed"
    /\ pc' = "listening"
    /\ sensor_created' = SetupCreated(data, expected_hashboards)
    /\ added' = added \cup SetupSensors(data, expected_hashboards)
    /\ last_call' = AddEntitiesCalls(SetupSensors(data, expected_hashboards))
    /\ state_written' = WrittenStates(added', data)
    /\ setup_log' = setup_log \o SetupCalls(SetupSensors(data, expected_hashboards))
    /\ known_keys' = DOMAIN data.miner_sensors
    /\ known_board_sensors' = SpecSetupKnownBoards(expected_hashboards)
    /\ spec_batch' = SetupSensors(data, expected_hashboards)
    /\ UNCHANGED <<data, expected_hashboards, flowVars>>

\* a coordinator update: the coordinator stores the new data and calls its
\* listeners, new_data_received and the update handler of every entity
Refresh(d) ==
    /\ pc = "listening"
    /\ data' = d
    /\ added' = added \cup NewSensors(d, sensor_created)
    /\ last_call' = AddEntitiesCalls(NewSensors(d, sensor_created))
    /\ sensor_created' =
           HandleCoordinatorUpdateCreated(RefreshCreated(d, sensor_created), added', d)
    /\ state_written' = WrittenStates(added', d)
    /\ known_keys' = known_keys \cup SpecNewKeys(d, known_keys)
    /\ known_board_sensors' = SpecRefreshKnownBoards(d, known_board_sensors)
    /\ spec_batch' = SpecNewSensors(d, known_keys, known_board_sensors)
    /\ UNCHANGED <<pc, expected_hashboards, setup_log, flowVars>>

Next ==
    \/ \E d \in DataSet : FirstRefresh(d)
    \/ FirstRefreshFails
    \/ SetupEntities
    \/ \E d \in DataSet : Refresh(d)

\* the platform of a configured miner: the wizard is not running
Init == SensorInit /\ FlowInit

Spec == Init /\ [][Next]_vars

\* the wizard alone, before any platform is set up
FlowSpecInit == SensorInit /\ expected_hashboards = 0 /\ FlowInit

FlowSpec == FlowSpecInit /\ [][FlowNext]_vars

-----------------------------------------------------------------------------
(* Properties of the sensor platform *)

\* the entities of the async_add_entities call of the last handler run
LastBatch == IF last_call = <<>> THEN {} ELSE last_call[1]

\* C1: on a refresh, a board entity is created for a (board, sensor) pair
\* only if no entity was created for that pair before
C1_BoardPairCreatedOnce ==
    [][pc = "listening" =>
          \A e \in (IF last_call' = <<>> THEN {} ELSE last_call'[1]) :
              e.kind = "board" => e \notin added]_vars

\* C2: on a refresh, a miner-level entity is created for exactly the keys of
\* data['miner_sensors'] that are not in sensor_created, and never for a key
\* that already has an entity
C2_MinerKeyCreatedOnce ==
    [][pc = "listening" =>
          LET batch == IF last_call' = <<>> THEN {} ELSE last_call'[1]
              miner == {e \in batch : e.kind = "miner"}
          IN  /\ miner = {MinerSensor(data', key) :
                             key \in DOMAIN data'.miner_sensors \ sensor_created}
              /\ miner \cap added = {}]_vars

\* a refresh has created an entity for a new key and none for a key seen before
C2_Witness ==
    /\ pc = "listening"
    /\ \E k1, k2 \in DOMAIN data.miner_sensors :
          /\ MinerSensor(data, k1) \in added \ LastBatch
          /\ MinerSensor(data, k2) \in LastBatch

\* C3: after setup and after every refresh, every reported miner key and
\* every reported (board, sensor) pair has an entity that was added
C3_EveryReportedSensorHasEntity ==
    pc = "listening" =>
        /\ \A key \in DOMAIN data.miner_sensors : MinerSensor(data, key) \in added
        /\ \A p \in ReportedPairs(data) : MinerBoardSensor(data, p[1], p[2]) \in added

\* C4: the set of created keys and the set of added entities only grow
C4_CreatedOnlyGrows ==
    [][sensor_created \subseteq sensor_created' /\ added \subseteq added']_vars

\* a key that had an entity has disappeared from the data, and both the key
\* and the entity are still there
C4_Witness ==
    /\ pc = "listening"
    /\ \E key \in MinerKeys :
          /\ key \notin DOMAIN data.miner_sensors
          /\ key \in sensor_created
          /\ MinerSensor(data, key) \in added

\* C5: the code adds the same batch of entities as the specification's data
\* model (known_keys, known_board_sensors) on the same data
C5_SameBatchAsSpecModel == pc = "listening" => LastBatch = spec_batch

\* C6 as stated: only the on-refresh callback, which runs once the listener
\* is registered, changes the set of created keys
C6_OnlyRefreshMutates ==
    [][sensor_created' # sensor_created => pc = "listening"]_vars

\* C6 amended: the set changes only in the initial batch of setup and in the
\* on-refresh callback, and then by exactly the strings the two create
\* helpers record for the entities of that batch
C6_OnlyCreateHelpersMutate ==
    [][/\ sensor_created' # sensor_created => pc \in {"first_refreshed", "listening"}
       /\ sensor_created' =
              sensor_created
              \cup {CreatedKeyOf(e) : e \in (IF last_call' = <<>> THEN {} ELSE last_call'[1])}]_vars

\* entities have been constructed, read and updated, one of them with a
\* sensor that is no longer reported, and the set holds their strings
C6_Witness ==
    /\ pc = "listening"
    /\ added # {}
    /\ DOMAIN state_written = added
    /\ \E e \in added : state_written[e].outcome # "value"
    /\ {CreatedKeyOf(e) : e \in added} \subseteq sensor_created

\* C7: reading the native value of a created entity never fails
C7_NativeValueNeverFails ==
    \A e \in DOMAIN state_written : state_written[e].outcome # "KeyError"

\* C8: the native value of a miner-level entity is data['miner_sensors'][K]
\* of the most recent data; that of a board entity is
\* data['board_sensors'][B][S] when B and S are there and None otherwise
C8_NativeValueIsCurrentData ==
    pc = "listening" =>
        /\ DOMAIN state_written = added
        /\ \A e \in added :
              IF e.kind = "miner"
              THEN /\ e.key \in DOMAIN data.miner_sensors =>
                          state_written[e] = ValueResult(data.miner_sensors[e.key])
                   /\ state_written[e].outcome = "value" =>
                          e.key \in DOMAIN data.miner_sensors
                   /\ state_written[e].outcome # "None"
              ELSE IF /\ e.board_num \in DOMAIN data.board_sensors
                      /\ e.sensor \in DOMAIN data.board_sensors[e.board_num]
                   THEN state_written[e] =
                            ValueResult(data.board_sensors[e.board_num][e.sensor])
                   ELSE state_written[e] = NoneResult

\* a miner-level entity and a board entity show the current reading, a board
\* entity whose sensor is not reported shows None, and another whose board is
\* not reported shows None
C8_Witness ==
    /\ pc = "listening"
    /\ \E e \in added : e.kind = "miner" /\ state_written[e].outcome = "value"
    /\ \E e \in added : e.kind = "board" /\ state_written[e].outcome = "value"
    /\ \E e \in added :
          /\ e.kind = "board"
          /\ e.board_num \in DOMAIN data.board_sensors
          /\ state_written[e] = NoneResult

-----------------------------------------------------------------------------
(* Properties of the configuration wizard *)

\* C9: once the user step has taken the IP of a miner, the login step asks
\* for the credentials of exactly the interfaces of that miner: the rpc
\* password iff the rpc interface is there and has a password, the web
\* username and password iff the web interface is there, the ssh username and
\* password iff the ssh interface is there, and nothing else
C9_LoginFormAsksExactlyInterfaces ==
    (history # <<>> /\ history[Len(history)].step_id = "user") =>
        /\ result.type = "form"
        /\ result.step_id = "login"
        /\ (CONF_RPC_PASSWORD \in result.fields) <=> (_miner.rpc = "pwd")
        /\ (CONF_WEB_USERNAME \in result.fields) <=> _miner.web
        /\ (CONF_WEB_PASSWORD \in result.fields) <=> _miner.web
        /\ (CONF_SSH_USERNAME \in result.fields) <=> _miner.ssh
        /\ (CONF_SSH_PASSWORD \in result.fields) <=> _miner.ssh
        /\ result.fields \subseteq
               {CONF_RPC_PASSWORD, CONF_WEB_USERNAME, CONF_WEB_PASSWORD,
                CONF_SSH_USERNAME, CONF_SSH_PASSWORD}

\* C10: every submission a step takes is non-empty; login only takes one
\* right after user took one, title only right after login took one, and
\* nothing is taken after title; an entry is created only when user, login
\* and title took their submissions in that order, for a miner that the
\* lookup at the submitted IP returned
C10_EntryOnlyAfterUserLoginTitle ==
    LET n == Len(history)
    IN  /\ \A i \in 1 .. n :
              /\ DOMAIN history[i].user_input # {}
              /\ (history[i].step_id = "user" /\ i < n) =>
                     history[i + 1].step_id \in {"user", "login"}
              /\ history[i].step_id = "login" => i > 1 /\ history[i - 1].step_id = "user"
              /\ history[i].step_id = "title" =>
                     i > 1 /\ history[i - 1].step_id = "login" /\ i = n
        /\ (result.type = "create_entry") = (cur_step = "done")
        /\ result.type = "create_entry" =>
              /\ n >= 3
              /\ history[n].step_id = "title"
              /\ _miner.found
              /\ CONF_IP \in DOMAIN result.data
              /\ result.data[CONF_IP] = history[n - 2].user_input[CONF_IP]

\* an entry has been created
C10_Witness == result.type = "create_entry" /\ Len(history) >= 3

\* C11: when the user step is submitted with an IP at which no miner is
\* found, the user form is shown again with an error, the flow stays at the
\* user step, and _data and _miner are left as they were
C11_RejectedIpChangesNothing ==
    [][\A user_input \in [{CONF_IP} -> IPs] :
          SubmitUser(user_input, NoMiner) =>
              /\ result' = ShowForm("user", {CONF_IP}, TRUE)
              /\ cur_step' = "user"
              /\ _data' = _data
              /\ _miner' = _miner
              /\ history' = history]_vars

\* an IP was rejected, then another one, and the user form is still there
C11_Witness ==
    /\ result = ShowForm("user", {CONF_IP}, TRUE)
    /\ cur_step = "user"
    /\ calls >= 3
    /\ CONF_IP \notin DOMAIN _data

\* C12: the login step builds its form without error for every miner found
C12_LoginFormNeverRaises == result.type # "AttributeError"

\* C13: for every miner found, no step answers the submission of the form
\* on screen (a value for each of its fields) by showing its own form again,
\* so a user who submits every form reaches the entry
C13_NoStepShowsItsFormAgain ==
    /\ cur_step = "user" =>
          \A user_input \in [{CONF_IP} -> IPs], miner \in Miners :
              async_step_user(_data, _miner, user_input, miner).result.step_id # "user"
    /\ cur_step = "login" =>
          \A user_input \in [result.fields -> Credentials] :
              async_step_login(_data, _miner, user_input).result.step_id # "login"
    /\ cur_step = "title" =>
          \A user_input \in [{CONF_TITLE} -> Titles] :
              async_step_title(_data, _miner, user_input).result.step_id # "title"

-----------------------------------------------------------------------------
(* Properties of the setup of the sensor platform *)

\* the parts of C14 about the order of setup: nothing is created or added
\* before the first refresh has completed, the initial batch is added before
\* the listener is registered, and a failed first refresh adds no entity and
\* registers no listener
SetupOrder ==
    /\ pc \in {"start", "first_refreshed", "not_ready"} =>
          added = {} /\ sensor_created = {} /\ last_call = <<>>
    /\ pc = "start" => setup_log = <<>>
    /\ pc = "first_refreshed" => setup_log = <<"first_refresh">>
    /\ pc = "not_ready" => setup_log = <<"first_refresh_failed">>
    /\ pc = "listening" =>
          setup_log \in {<<"first_refresh", "async_add_entities", "add_listener">>,
                         <<"first_refresh", "add_listener">>}
    /\ (pc = "listening" /\ Len(setup_log) = 2) => expected_hashboards = 0

\* C14 as stated: the order of setup, and the refresh callback never runs
\* against an empty set of created keys
C14_CallbackNeverSeesEmptySet ==
    [][SetupOrder /\ SetupOrder' /\ (pc = "listening" => sensor_created # {})]_vars

\* C14 amended: the order of setup, and the refresh callback runs against an
\* empty set of created keys only when no entity was ever created, which
\* takes expected_hashboards = 0 and an initial batch that was empty
C14_CallbackSeesEmptySetOnlyAfterEmptyBatch ==
    [][/\ SetupOrder
       /\ SetupOrder'
       /\ (pc = "listening" /\ sensor_created = {}) =>
              /\ expected_hashboards = 0
              /\ added = {}
              /\ setup_log = <<"first_refresh", "add_listener">>]_vars

\* the initial batch was added, the listener registered after it, and a
\* later refresh has created an entity that setup had not
C14_Witness ==
    /\ pc = "listening"
    /\ setup_log = <<"first_refresh", "async_add_entities", "add_listener">>
    /\ LastBatch # {}
    /\ added \ LastBatch # {}
    /\ \E e \in LastBatch : e.kind = "miner"

\* C15: setup creates one miner-level entity per key of the first
\* data['miner_sensors'] and the three board entities of every board
\* 0 .. expected_hashboards - 1, reported or not, and passes them all in one
\* async_add_entities call, which it does not make for an empty batch
C15_InitialBatch ==
    [][pc = "first_refreshed" =>
          LET batch == IF last_call' = <<>> THEN {} ELSE last_call'[1]
              miner == {e \in batch : e.kind = "miner"}
          IN  /\ Len(last_call') <= 1
              /\ added' = batch
              /\ Len(last_call') = 0 <=>
                     (DOMAIN data.miner_sensors = {} /\ expected_hashboards = 0)
              /\ {e.key : e \in miner} = DOMAIN data.miner_sensors
              /\ Cardinality(miner) = Cardinality(DOMAIN data.miner_sensors)
              /\ \A b \in 0 .. (expected_hashboards - 1) :
                    /\ {e.sensor : e \in {x \in batch : x.kind = "board" /\ x.board_num = b}}
                           = {"board_temperature", "chip_temperature", "board_hashrate"}
                    /\ Cardinality({x \in batch : x.kind = "board" /\ x.board_num = b}) = 3
              /\ \A e \in batch :
                    e.kind = "board" => e.board_num \in 0 .. (expected_hashboards - 1)]_vars

\* setup has added a miner-level entity and the three entities of a board
\* that the first data does not mention
C15_Witness ==
    /\ pc = "listening"
    /\ \E e \in LastBatch : e.kind = "miner"
    /\ \E e \in LastBatch :
          /\ e.kind = "board"
          /\ e.sensor = "board_temperature"
          /\ e.board_num \notin DOMAIN data.board_sensors

-----------------------------------------------------------------------------
(* Properties of the identifiers and of the two kinds of tracking *)

\* C16: no two entities passed to async_add_entities, in one call or over
\* setup and the refreshes, have the same unique id
C16_UniqueIds ==
    [][LET batch == IF last_call' = <<>> THEN {} ELSE last_call'[1]
       IN  /\ \A e, f \in batch : e # f => e.unique_id # f.unique_id
           /\ \A e \in batch : \A f \in added : e.unique_id # f.unique_id]_vars

\* C17: on a refresh, a reported miner-level key that has no miner-level
\* entity yet gets one, whatever board records exist, and a reported board
\* pair that has no board entity yet gets one, whatever miner-level keys exist
C17_NoInterference ==
    [][pc = "listening" =>
          LET batch == IF last_call' = <<>> THEN {} ELSE last_call'[1]
          IN  /\ \A key \in DOMAIN data'.miner_sensors :
                    MinerSensor(data', key) \notin added =>
                        MinerSensor(data', key) \in batch
              /\ \A p \in ReportedPairs(data') :
                    MinerBoardSensor(data', p[1], p[2]) \notin added =>
                        MinerBoardSensor(data', p[1], p[2]) \in batch]_vars

-----------------------------------------------------------------------------
(* Properties of the created entry *)

\* the submissions of a history merged in order, later ones overriding
RECURSIVE MergedSubmissions(_)
MergedSubmissions(h) ==
    IF h = <<>>
    THEN EmptyInput
    ELSE Update(MergedSubmissions(SubSeq(h, 1, Len(h) - 1)), h[Len(h)].user_input)

\* C18: the data of the created entry is the union of the submissions the
\* user, login and title steps took, later ones overriding; it holds the IP
\* the accepted user submission gave, and the title of the entry is the
\* title submitted in the title step
C18_EntryCarriesSubmissions ==
    result.type = "create_entry" =>
        LET n == Len(history)
        IN  /\ result.data = MergedSubmissions(history)
            /\ result.data = _data
            /\ result.data[CONF_IP] = history[n - 2].user_input[CONF_IP]
            /\ history[n - 2].step_id = "user"
            /\ \A k \in DOMAIN history[n - 1].user_input :
                  result.data[k] = history[n - 1].user_input[k]
            /\ result.title = history[n].user_input[CONF_TITLE]
            /\ result.data[CONF_TITLE] = result.title

\* an entry was created after a first IP was taken and replaced by a second,
\* and it holds credentials of the login step
C18_Witness ==
    /\ result.type = "create_entry"
    /\ Len(history) = 4
    /\ history[1].user_input[CONF_IP] # history[2].user_input[CONF_IP]
    /\ DOMAIN history[3].user_input # {}
    /\ Cardinality(DOMAIN result.data) > 2

=============================================================================
